---------------------------- MODULE Spec2Model ----------------------------
(***************************************************************************)
(* Model of recap-org/backend: the template context builder, the download  *)
(* and repository-provisioning handlers of app/cookiecutter.py and         *)
(* app/main.py, the generator service with its script caller, and the      *)
(* GitHub OAuth routes of app/auth.py.                                     *)
(*                                                                         *)
(* Four specifications share the module:                                   *)
(*   Spec      the four generation handlers, stepped statement by statement*)
(*   SpecCtx   the context builder applied to schemas and override sets    *)
(*   SpecGen   generate_cookiecutter_project and scripts/test_cookiecutters*)
(*   SpecAuth  login / callback / me over per-client sessions              *)
(***************************************************************************)
EXTENDS Integers, Sequences, FiniteSets, TLC

(***************************************************************************)
(* Python values.  A JSON value is modelled by its runtime type and its    *)
(* repr, so that values of different types never compare equal.            *)
(***************************************************************************)
PyStr(s) == [t |-> "str", v |-> s]
PyBool(s) == [t |-> "bool", v |-> s]
PyInt(s) == [t |-> "int", v |-> s]
PyDict(s) == [t |-> "dict", v |-> s]
PyNone == [t |-> "NoneType", v |-> "None"]

\* Python truthiness of a value (None, "", False, 0 and {} are falsy).
Truthy(x) ==
    /\ x.t # "NoneType"
    /\ ~(x.t = "str" /\ x.v = "")
    /\ ~(x.t = "bool" /\ x.v = "False")
    /\ ~(x.t = "int" /\ x.v = "0")
    /\ ~(x.t = "dict" /\ x.v = "{}")

\* dict.get(key) with the default None
Get(d, k) == IF k \in DOMAIN d THEN d[k] ELSE PyNone

\* dict(a) followed by an update from b: b's entries win
Updated(a, b) ==
    [k \in (DOMAIN a) \cup (DOMAIN b) |-> IF k \in DOMAIN b THEN b[k] ELSE a[k]]

\* {k: v for k, v in d.items() if k not in keys}
Without(d, keys) == [k \in (DOMAIN d) \ keys |-> d[k]]

EmptyDict == [k \in {} |-> PyNone]

\* app/cookiecutter.py: RESERVED_CONFIG_KEYS
RESERVED_CONFIG_KEYS == {"__prompts__", "_jinja2_env_vars"}

(***************************************************************************)
(* app/cookiecutter.py: _build_extra_context_from_template, applied to the *)
(* loaded template config.  There is no type comparison in this function:  *)
(* every non-reserved override is stored as given.                          *)
(***************************************************************************)
build_extra_context_keep_reserved(template_cfg, overrides) ==
    LET extra == Updated(template_cfg, overrides)
    IN  IF ~Truthy(Get(extra, "project_name"))
        THEN Updated(extra, [k \in {"project_name"} |-> PyStr("project")])
        ELSE extra

build_extra_context_defaults_only(template_cfg, overrides) ==
    LET extra == Without(template_cfg, RESERVED_CONFIG_KEYS)
    IN  IF ~Truthy(Get(extra, "project_name"))
        THEN Updated(extra, [k \in {"project_name"} |-> PyStr("project")])
        ELSE extra

build_extra_context_from_template(template_cfg, overrides) ==
    LET defaults == Without(template_cfg, RESERVED_CONFIG_KEYS)
        extra == Updated(defaults, Without(overrides, RESERVED_CONFIG_KEYS))
    IN  IF ~Truthy(Get(extra, "project_name"))
        THEN Updated(extra, [k \in {"project_name"} |-> PyStr("project")])
        ELSE extra

(***************************************************************************)
(* Bounds of the model.                                                    *)
(***************************************************************************)
\* temporary-directory names tempfile.mkdtemp can hand out: 1..MaxDirs
MaxDirs == 4

DirNames == 1 .. MaxDirs
NoDir == 0

(***************************************************************************)
(* Variables.                                                              *)
(***************************************************************************)
VARIABLES
    \* --- the generation handlers (Spec) ---
    pc,             \* request -> the statement the handler is at
    req,            \* request -> its inputs (kind, template_name, body, header)
    token,          \* request -> local variable token
    extra_context,  \* request -> local variable extra_context (a one-element
                    \*            sequence once it is built)
    temp_dir,       \* request -> local variable temp_dir (NoDir before mkdtemp)
    resp,           \* request -> the response or HTTPException being returned
    gitLog,         \* request -> the git commands run so far, in order
    apiLog,         \* request -> the hosting-API requests sent so far
    engineLog,      \* request -> the contexts passed to cookiecutter()
    dirs,           \* the temporary directories that exist on disk
    repos,          \* the repositories that exist on the hosting service
    index_exists,   \* whether cookiecutter/cookiecutter.json exists
    session_token,  \* request.session["github_token"] ("" when absent)
    env_token       \* os.environ["GITHUB_TOKEN"] ("" when absent)

genVars ==
    <<pc, req, token, extra_context, temp_dir, resp, gitLog, apiLog,
      engineLog, dirs, repos, index_exists, session_token, env_token>>

VARIABLES
    \* --- the context builder applied on its own (SpecCtx) ---
    cb_cfg,         \* the template's cookiecutter.json
    cb_overrides,   \* the caller's override set
    cb_out          \* <<>>, or the one context the builder returned

cbVars == <<cb_cfg, cb_overrides, cb_out>>

VARIABLES
    \* --- the generator service and its script caller (SpecGen) ---
    sg_pc,          \* where scripts/test_cookiecutters.py is
    sg_todo,        \* templates main() has still to generate
    sg_name,        \* the template generate_template is working on
    sg_temp_dir,    \* generate_cookiecutter_project's local temp_dir
    sg_engine,      \* what cookiecutter() did in the current call: none, ok, raised
    sg_result,      \* <<>>, or the temp_dir of the Generation Result returned
    sg_dirs,        \* the temporary directories that exist on disk
    sg_failures,    \* main()'s failures dict (its keys)
    sg_context      \* <<>>, or the extra_context build_extra_context returned

sgVars ==
    <<sg_pc, sg_todo, sg_name, sg_temp_dir, sg_engine, sg_result, sg_dirs,
      sg_failures, sg_context>>

VARIABLES
    \* --- the OAuth routes (SpecAuth) ---
    session,        \* client -> its session dict (oauth_state, github_token, github_user)
    oauth_cfg,      \* the settings: which of client id / secret / redirect uri are set
    last,           \* the last call handled: its inputs, what it sent, its response
    replayed        \* the last call is a callback sent again after it succeeded

auVars == <<session, oauth_cfg, last, replayed>>

VARIABLES
    \* --- the template listing and template-config endpoints (SpecCat) ---
    ct_index,       \* whether cookiecutter/cookiecutter.json exists
    ct_disk,        \* the cookiecutter.json of the templates that have one
    ct_resp,        \* the last response of a catalog endpoint
    ct_names,       \* the keys of "templates" in cookiecutter/cookiecutter.json
    ct_fresh        \* no file of the registry was edited since ct_resp was made

ctVars == <<ct_index, ct_disk, ct_resp, ct_names, ct_fresh>>

VARIABLES
    \* --- zip_directory_with_symlinks applied on its own (SpecZip) ---
    zp_tree,        \* the directory tree beneath root: path -> kind of entry
    zp_out          \* <<>>, or the one archive built (its list of entries)

zpVars == <<zp_tree, zp_out>>

vars == <<genVars, cbVars, sgVars, auVars, ctVars, zpVars>>

(***************************************************************************)
(* The template registry on disk.                                          *)
(*   article, data : in the index, directory and schema present           *)
(*   bare          : in the index, directory present, no cookiecutter.json *)
(*   gone          : in the index, directory missing                       *)
(*   nosuch        : not in the index                                      *)
(***************************************************************************)
TemplateNames == {"article", "data", "bare", "gone", "nosuch"}
IndexTemplates == {"article", "data", "bare", "gone"}
TemplateDirExists(name) == name \in {"article", "data", "bare"}
TemplateCfgExists(name) == name \in {"article", "data"}

TemplateCfg(name) ==
    IF name = "article"
    THEN [k \in {"project_name", "__prompts__"} |->
            IF k = "project_name" THEN PyStr("Demo") ELSE PyDict("{...}")]
    ELSE [k \in {"project_name", "r_version", "_jinja2_env_vars"} |->
            IF k = "project_name" THEN PyStr("Demo")
            ELSE IF k = "r_version" THEN PyStr("4.5.1")
            ELSE PyDict("{...}")]

(***************************************************************************)
(* Responses.  A detail string is a sequence of fragments, so that "the    *)
(* detail contains X" is a question about the string that was built.       *)
(***************************************************************************)
Frag(kind, of) == [kind |-> kind, of |-> of]
Lit(s) == Frag("lit", s)
Response(status, detail) == [status |-> status, detail |-> detail]
NoResp == Response(0, <<>>)
Contains(detail, f) == \E i \in DOMAIN detail : detail[i] = f

\* starlette HTTPException.__str__: "<status_code>: <detail>"
StrOfHTTPException(e) == <<Frag("status", "code")>> \o e.detail

Ok(value) == [ok |-> TRUE, value |-> value, err |-> NoResp]
Err(status, detail) == [ok |-> FALSE, value |-> EmptyDict, err |-> Response(status, detail)]

\* app/cookiecutter.py: _load_main_config + _resolve_template_path
resolve_template_path(ix, template_name) ==
    IF ~ix
    THEN Err(500, <<Lit("Template configuration not found")>>)
    ELSE IF template_name \notin IndexTemplates
    THEN Err(404, <<Lit("Template not found"), Frag("template", template_name)>>)
    ELSE IF ~TemplateDirExists(template_name)
    THEN Err(404, <<Lit("Template directory not found"), Frag("template", template_name)>>)
    ELSE Ok(EmptyDict)

\* app/cookiecutter.py: _load_template_config
load_template_config(ix, template_name) ==
    LET path == resolve_template_path(ix, template_name)
    IN  IF ~path.ok THEN path
        ELSE IF ~TemplateCfgExists(template_name)
        THEN Err(404, <<Lit("Configuration for template not found"),
                        Frag("template", template_name)>>)
        ELSE Ok(TemplateCfg(template_name))

\* _build_extra_context_from_template with its config load
build_context_for(ix, template_name, overrides) ==
    LET cfg == load_template_config(ix, template_name)
    IN  IF ~cfg.ok THEN cfg
        ELSE Ok(build_extra_context_from_template(cfg.value, overrides))

(***************************************************************************)
(* Request inputs.                                                         *)
(***************************************************************************)
Requests == {"r1"}

Kinds == {"download", "github", "generate", "gh_repo_create"}
RouterKinds == {"download", "github"}          \* app/cookiecutter.py
ProvisionKinds == {"github", "gh_repo_create"}

NoHeader == [scheme |-> "none", cred |-> ""]
Headers ==
    { NoHeader,
      [scheme |-> "bearer", cred |-> "hdrtok"],
      [scheme |-> "bearer", cred |-> ""],
      [scheme |-> "basic", cred |-> "xyz"] }

Tokens == {"", "hdrtok", "sesstok", "envtok"}

\* JSON bodies sent to the /cookiecutter/{name}/... routes
Body(pn, rv, pr) ==
    [k \in ((IF pn.t = "absent" THEN {} ELSE {"project_name"})
            \cup (IF rv.t = "absent" THEN {} ELSE {"r_version"})
            \cup (IF pr.t = "absent" THEN {} ELSE {"__prompts__"})) |->
        IF k = "project_name" THEN pn ELSE IF k = "r_version" THEN rv ELSE pr]
Absent == [t |-> "absent", v |-> ""]

RouterBodies ==
    { EmptyDict,
      Body(PyStr("My Project"), Absent, Absent),
      Body(Absent, PyInt("2"), Absent),
      Body(Absent, PyStr("4.4.0"), Absent),
      Body(PyStr(""), Absent, PyStr("x")) }

\* Bodies of the pydantic TemplateRequest routes of app/main.py: the fields
\* not sent keep their declared defaults.
MainBodies ==
    { EmptyDict,
      Body(PyStr("My Project"), Absent, Absent),
      Body(PyStr(""), Absent, Absent),
      Body(PyNone, Absent, Absent) }

NoReq == [kind |-> "none", template_name |-> "", body |-> EmptyDict, header |-> NoHeader]

\* app/main.py: TemplateRequest.project_name (default "My Project")
RequestProjectName(body) ==
    IF "project_name" \in DOMAIN body THEN body["project_name"] ELSE PyStr("My Project")

\* app/main.py: str_or_empty
str_or_empty(val) == IF val.t = "NoneType" THEN PyStr("") ELSE PyStr(val.v)

\* app/main.py: the extra_context built inline by generate_template and
\* gh_repo_create; first is the project_name expression of the handler.
main_extra_context(template_name, first) ==
    LET keys == IF template_name = "data"
                THEN {"project_name", "r", "r_version", "latex", "first_name",
                      "last_name", "email", "institution"}
                ELSE IF template_name \in {"article", "presentation"}
                THEN {"project_name", "first_name", "last_name", "email",
                      "institution"}
                ELSE {"project_name"}
    IN  [k \in keys |->
            IF k = "project_name" THEN str_or_empty(first)
            ELSE IF k = "r" THEN PyStr("True")
            ELSE IF k = "r_version" THEN PyStr("4.5.1")
            ELSE IF k = "latex" THEN PyStr("auto")
            ELSE PyStr("default")]

\* GitHubRepoRequest.name, a required field
RepoNameField == PyStr("my-repo")

\* "-".join(project_name.lower().split()) on the names the model uses
Slug(name) ==
    IF name = "My Project" THEN "my-project"
    ELSE IF name = "Demo" THEN "demo"
    ELSE IF name = "my-repo" THEN "my-repo"
    ELSE "project"

(***************************************************************************)
(* Token resolution: app/cookiecutter.py 181-188, app/main.py 374-378.     *)
(***************************************************************************)
\* a resolver that falls back to the session when the header's token is empty
resolve_token_fallback(header, sess, env) ==
    IF header.scheme = "bearer" /\ header.cred # "" THEN header.cred
    ELSE IF sess # "" THEN sess
    ELSE env

resolve_token(header, sess, env) ==
    IF header.scheme = "bearer" THEN header.cred
    ELSE IF sess # "" THEN sess
    ELSE env

\* `if not token`
token_missing_never(tok) == FALSE

token_missing(tok) == tok = ""

MissingToken == Response(401, <<Lit("Missing GitHub token")>>)

(***************************************************************************)
(* The hosting API's answers to the repository-creation request.           *)
(***************************************************************************)
ErrorStatuses == {400, 401, 403, 404, 422, 500}
ApiBodies ==
    { [json |-> TRUE, message |-> TRUE, errors |-> TRUE],
      [json |-> TRUE, message |-> TRUE, errors |-> FALSE],
      [json |-> TRUE, message |-> FALSE, errors |-> TRUE],
      [json |-> TRUE, message |-> FALSE, errors |-> FALSE],
      [json |-> FALSE, message |-> FALSE, errors |-> FALSE] }

ApiMessage == Frag("api", "message")
ApiErrors == Frag("api", "errors")

\* HTTPException(status_code, detail): a None detail becomes the status phrase
HTTPException(status, detail) ==
    Response(status, IF detail = <<>> THEN <<Frag("phrase", "http")>> ELSE detail)

\* app/cookiecutter.py 232-242
router_api_error_all_502(status, body) ==
    HTTPException(502, <<Frag("api", "text")>>)

router_api_error(status, body) ==
    LET message == IF body.message THEN <<ApiMessage>> ELSE <<>>
        detail ==
            IF ~body.json THEN <<Frag("api", "text")>>
            ELSE IF body.errors
            THEN (IF message = <<>> THEN <<Lit("Error")>> ELSE message)
                    \o <<Lit(": "), ApiErrors>>
            ELSE message
    IN  HTTPException(IF status \in {401, 403, 404, 422} THEN status ELSE 502,
                      detail)

\* app/main.py 421-440
main_api_error(status, body) ==
    LET detail ==
            IF ~body.json THEN <<Frag("api", "text")>>
            ELSE IF body.errors
            THEN <<IF body.message THEN ApiMessage ELSE Lit("Error"),
                   Lit(": "), ApiErrors>>
            ELSE IF body.message THEN <<ApiMessage>> ELSE <<Frag("api", "json")>>
    IN  IF status = 401
        THEN HTTPException(401, <<Lit("Unauthorized with provided GitHub token. ")>> \o detail)
        ELSE IF status = 403 THEN HTTPException(403, detail)
        ELSE IF status = 404
        THEN HTTPException(404, <<Lit("GitHub endpoint not found or organization missing. ")>> \o detail)
        ELSE IF status = 422
        THEN HTTPException(422, <<Lit("Repository creation failed: ")>> \o detail)
        ELSE HTTPException(502, detail)

(***************************************************************************)
(* The generation handlers.                                                *)
(*   download        app/cookiecutter.py  download_template                *)
(*   github          app/cookiecutter.py  create_github_repo               *)
(*   generate        app/main.py          generate_template                *)
(*   gh_repo_create  app/main.py          gh_repo_create                   *)
(***************************************************************************)
\* a sequence that commits before it stages
GitStepsCommitFirst ==
    <<"init", "config_email", "config_name", "checkout", "commit", "add",
      "remote_add">>

GitSteps ==
    <<"init", "config_email", "config_name", "checkout", "add", "commit",
      "remote_add">>

\* what a subprocess.run of git can do: exit 0, exit non-zero (with or
\* without text on stderr), or fail to start (OSError)
GitOutcomes == {"ok", "nonzero_stderr", "nonzero_silent", "oserror"}

GitRun(cmd, outcome) == [cmd |-> cmd, outcome |-> outcome]

otherVars == <<cbVars, sgVars, auVars, ctVars, zpVars>>

\* the handler returns or raises outside any try block
Finish(r, response) ==
    /\ pc' = [pc EXCEPT ![r] = "done"]
    /\ resp' = [resp EXCEPT ![r] = response]

\* the handler returns or raises inside the try block: the finally clause runs
\* before the response leaves the handler
leave_try(r, response) ==
    /\ pc' = [pc EXCEPT ![r] = "finally"]
    /\ resp' = [resp EXCEPT ![r] = response]

\* shutil.rmtree(temp_dir, ignore_errors=True)
rmtree_noop(ds, d) == ds

rmtree(ds, d) == ds \ {d}

\* except Exception as e: ... f"Error generating template: {str(e)}"
generating_error(what) ==
    HTTPException(500, <<Lit("Error generating template: "), Frag("exception", what)>>)

\* except Exception as e: ... f"Error generating or pushing template: {str(e)}"
generating_or_pushing_error(text) ==
    HTTPException(500, <<Lit("Error generating or pushing template: ")>> \o text)

\* except subprocess.CalledProcessError as e: stderr, or str(e) (which quotes
\* the command line) when stderr is empty
git_operation_failed(step, outcome) ==
    HTTPException(500,
        <<Lit("Git operation failed: "),
          IF outcome = "nonzero_stderr" THEN Frag("stderr", step)
          ELSE Frag("cmdline", step)>>)

\* clone_url_with_token is an argument of `git remote add origin` only: the
\* command line of that step is the text that holds the bearer token
carries_token(f) == f = Frag("cmdline", "remote_add")

\* push_result.returncode != 0: the HTTPException raised inside the try block
\* is caught by `except Exception` and wrapped
push_failed_swallowed ==
    Response(200, <<Lit("repo")>>)

push_failed ==
    generating_or_pushing_error(
        StrOfHTTPException(
            HTTPException(500, <<Lit("Git push failed: "), Frag("stderr", "push")>>)))

\* ---- entry of each handler, up to its first blocking call ----

StartDownload(r) ==
    /\ pc[r] = "idle"
    /\ \E name \in TemplateNames, body \in RouterBodies :
        LET path == resolve_template_path(index_exists, name)
            built == build_context_for(index_exists, name, body)
        IN  /\ req' = [req EXCEPT ![r] =
                        [kind |-> "download", template_name |-> name,
                         body |-> body, header |-> NoHeader]]
            /\ IF ~path.ok
               THEN Finish(r, path.err) /\ UNCHANGED extra_context
               ELSE IF ~built.ok
               THEN Finish(r, built.err) /\ UNCHANGED extra_context
               ELSE /\ pc' = [pc EXCEPT ![r] = "mkdtemp"]
                    /\ extra_context' = [extra_context EXCEPT ![r] = <<built.value>>]
                    /\ UNCHANGED resp
    /\ UNCHANGED <<token, temp_dir, gitLog, apiLog, engineLog, dirs, repos,
                   index_exists, session_token, env_token, otherVars>>

StartGenerate(r) ==
    /\ pc[r] = "idle"
    /\ \E name \in TemplateNames, body \in MainBodies :
        LET path == resolve_template_path(index_exists, name)
        IN  /\ req' = [req EXCEPT ![r] =
                        [kind |-> "generate", template_name |-> name,
                         body |-> body, header |-> NoHeader]]
            /\ IF ~path.ok
               THEN Finish(r, path.err)
               ELSE pc' = [pc EXCEPT ![r] = "mkdtemp"] /\ UNCHANGED resp
    /\ UNCHANGED <<token, extra_context, temp_dir, gitLog, apiLog, engineLog,
                   dirs, repos, index_exists, session_token, env_token, otherVars>>

StartGithub(r) ==
    /\ pc[r] = "idle"
    /\ \E name \in TemplateNames, body \in RouterBodies, header \in Headers :
        LET tok == resolve_token(header, session_token, env_token)
            built == build_context_for(index_exists, name, body)
        IN  /\ req' = [req EXCEPT ![r] =
                        [kind |-> "github", template_name |-> name,
                         body |-> body, header |-> header]]
            /\ IF token_missing(tok)
               THEN Finish(r, MissingToken) /\ UNCHANGED <<token, extra_context>>
               ELSE IF ~built.ok
               THEN /\ Finish(r, built.err)
                    /\ token' = [token EXCEPT ![r] = tok]
                    /\ UNCHANGED extra_context
               ELSE /\ pc' = [pc EXCEPT ![r] = "post"]
                    /\ token' = [token EXCEPT ![r] = tok]
                    /\ extra_context' = [extra_context EXCEPT ![r] = <<built.value>>]
                    /\ UNCHANGED resp
    /\ UNCHANGED <<temp_dir, gitLog, apiLog, engineLog, dirs, repos,
                   index_exists, session_token, env_token, otherVars>>

StartGhRepoCreate(r) ==
    /\ pc[r] = "idle"
    /\ \E name \in TemplateNames, body \in MainBodies, header \in Headers :
        LET tok == resolve_token(header, session_token, env_token)
        IN  /\ req' = [req EXCEPT ![r] =
                        [kind |-> "gh_repo_create", template_name |-> name,
                         body |-> body, header |-> header]]
            /\ IF token_missing(tok)
               THEN Finish(r, MissingToken) /\ UNCHANGED token
               ELSE /\ pc' = [pc EXCEPT ![r] = "post"]
                    /\ token' = [token EXCEPT ![r] = tok]
                    /\ UNCHANGED resp
    /\ UNCHANGED <<extra_context, temp_dir, gitLog, apiLog, engineLog, dirs,
                   repos, index_exists, session_token, env_token, otherVars>>

\* ---- the repository-creation request (both provisioning handlers) ----

\* payload["name"]: the slug of the context's project_name in create_github_repo,
\* body.name in gh_repo_create
RepoName(r) ==
    IF req[r].kind = "github"
    THEN LET pn == Get(extra_context[r][1], "project_name")
         IN  Slug(IF Truthy(pn) THEN pn.v ELSE "project")
    ELSE Slug(RepoNameField.v)

api_error(kind, status, body) ==
    IF kind = "github" THEN router_api_error(status, body)
    ELSE main_api_error(status, body)

\* one exchange with the hosting API: the request sent and the answer received
\* (status 0: no answer, httpx.HTTPError)
NoApiBody == [json |-> FALSE, message |-> FALSE, errors |-> FALSE]
ApiCall(r, status, body) ==
    [method |-> "POST", path |-> "repos", auth |-> token[r], name |-> RepoName(r),
     status |-> status, body |-> body]

\* the statuses the hosting API answers with
ApiStatuses == ErrorStatuses \cup {201}

\* a handler that gives up on server errors only
creation_failed_server_errors_only(status) == status >= 500

\* `if resp.status_code >= 400`
creation_failed(status) == status >= 400

PostRepo(r) ==
    /\ pc[r] = "post"
    /\ \/ \* httpx.HTTPError: the request may or may not have reached the service
          /\ \E created \in BOOLEAN :
                repos' = IF created THEN repos \cup {RepoName(r)} ELSE repos
          /\ apiLog' = [apiLog EXCEPT ![r] = Append(@, ApiCall(r, 0, NoApiBody))]
          /\ Finish(r, HTTPException(502,
                <<Lit("GitHub API request failed: "), Frag("exception", "httpx")>>))
       \/ \* resp.status_code >= 400
          /\ \E status \in ApiStatuses, body \in ApiBodies :
                /\ creation_failed(status)
                /\ apiLog' = [apiLog EXCEPT ![r] = Append(@, ApiCall(r, status, body))]
                /\ Finish(r, api_error(req[r].kind, status, body))
          /\ UNCHANGED repos
       \/ \* below 400: the handler goes on with the repository data
          /\ \E status \in ApiStatuses :
                /\ ~creation_failed(status)
                /\ repos' = IF status = 201 THEN repos \cup {RepoName(r)} ELSE repos
                /\ apiLog' = [apiLog EXCEPT ![r] = Append(@, ApiCall(r, status, NoApiBody))]
          /\ pc' = [pc EXCEPT ![r] = "validate"]
          /\ UNCHANGED resp
    /\ UNCHANGED <<req, token, extra_context, temp_dir, gitLog, engineLog, dirs,
                   index_exists, session_token, env_token, otherVars>>

\* create_github_repo 249: _resolve_template_path; gh_repo_create 447-457: the
\* index and directory checks, made only now
ValidateTemplate(r) ==
    /\ pc[r] = "validate"
    /\ LET path == resolve_template_path(index_exists, req[r].template_name)
       IN  IF ~path.ok
           THEN Finish(r, path.err)
           ELSE pc' = [pc EXCEPT ![r] = "mkdtemp"] /\ UNCHANGED resp
    /\ UNCHANGED <<req, token, extra_context, temp_dir, gitLog, apiLog, engineLog,
                   dirs, repos, index_exists, session_token, env_token, otherVars>>

\* ---- temp_dir = tempfile.mkdtemp(); try: ... ----

\* mkdtemp creates a directory under a name that does not exist yet
FreshDirsAnyName == DirNames

FreshDirs == DirNames \ dirs

Mkdtemp(r) ==
    /\ pc[r] = "mkdtemp"
    /\ \E d \in FreshDirs :
        /\ temp_dir' = [temp_dir EXCEPT ![r] = d]
        /\ dirs' = dirs \cup {d}
    /\ pc' = [pc EXCEPT ![r] = "render"]
    /\ UNCHANGED <<req, token, extra_context, resp, gitLog, apiLog, engineLog,
                   repos, index_exists, session_token, env_token, otherVars>>

\* the extra_context the handler passes to cookiecutter()
RenderContext(r) ==
    IF req[r].kind \in RouterKinds THEN extra_context[r][1]
    ELSE IF req[r].kind = "generate"
    THEN main_extra_context(req[r].template_name, RequestProjectName(req[r].body))
    ELSE LET pn == RequestProjectName(req[r].body)
         IN  main_extra_context(req[r].template_name,
                                IF Truthy(pn) THEN pn ELSE RepoNameField)

Render(r) ==
    /\ pc[r] = "render"
    /\ extra_context' = [extra_context EXCEPT ![r] = <<RenderContext(r)>>]
    /\ engineLog' = [engineLog EXCEPT ![r] = Append(@, RenderContext(r))]
    /\ \/ \* cookiecutter() returned output_dir
          /\ pc' = [pc EXCEPT ![r] =
                        IF req[r].kind \in ProvisionKinds THEN "git" ELSE "zip"]
          /\ UNCHANGED resp
       \/ \* cookiecutter() raised
          leave_try(r, IF req[r].kind \in ProvisionKinds
                       THEN generating_or_pushing_error(<<Frag("exception", "cookiecutter")>>)
                       ELSE generating_error("cookiecutter"))
    /\ UNCHANGED <<req, token, temp_dir, gitLog, apiLog, dirs, repos,
                   index_exists, session_token, env_token, otherVars>>

\* zip_directory_with_symlinks / the inline ZipFile loop, then the response
Zip(r) ==
    /\ pc[r] = "zip"
    /\ \/ leave_try(r, Response(200, <<Lit("zip")>>))
       \/ leave_try(r, generating_error("zip"))
    /\ UNCHANGED <<req, token, extra_context, temp_dir, gitLog, apiLog, engineLog,
                   dirs, repos, index_exists, session_token, env_token, otherVars>>

\* the seven subprocess.run(..., check=True) calls, in order
Git(r) ==
    /\ pc[r] = "git"
    /\ LET n == Len(gitLog[r]) + 1
           step == GitSteps[n]
       IN  \E outcome \in GitOutcomes :
            /\ gitLog' = [gitLog EXCEPT ![r] = Append(@, GitRun(step, outcome))]
            /\ IF outcome = "ok"
               THEN /\ pc' = [pc EXCEPT ![r] =
                               IF n = Len(GitSteps) THEN "push" ELSE "git"]
                    /\ UNCHANGED resp
               ELSE IF outcome = "oserror"
               THEN leave_try(r, generating_or_pushing_error(<<Frag("exception", step)>>))
               ELSE leave_try(r, git_operation_failed(step, outcome))
    /\ UNCHANGED <<req, token, extra_context, temp_dir, apiLog, engineLog, dirs,
                   repos, index_exists, session_token, env_token, otherVars>>

\* git push --set-upstream, run without check=True
Push(r) ==
    /\ pc[r] = "push"
    /\ \E outcome \in GitOutcomes :
        /\ gitLog' = [gitLog EXCEPT ![r] = Append(@, GitRun("push", outcome))]
        /\ IF outcome = "ok"
           THEN leave_try(r, Response(200, <<Lit("repo")>>))
           ELSE IF outcome = "oserror"
           THEN leave_try(r, generating_or_pushing_error(<<Frag("exception", "push")>>))
           ELSE leave_try(r, push_failed)
    /\ UNCHANGED <<req, token, extra_context, temp_dir, apiLog, engineLog, dirs,
                   repos, index_exists, session_token, env_token, otherVars>>

\* finally: shutil.rmtree(temp_dir, ignore_errors=True)
Finally(r) ==
    /\ pc[r] = "finally"
    /\ dirs' = rmtree(dirs, temp_dir[r])
    /\ pc' = [pc EXCEPT ![r] = "done"]
    /\ UNCHANGED <<req, token, extra_context, temp_dir, resp, gitLog, apiLog,
                   engineLog, repos, index_exists, session_token, env_token,
                   otherVars>>

\* the response has been sent; the worker takes the next request
NextRequest(r) ==
    /\ pc[r] = "done"
    /\ pc' = [pc EXCEPT ![r] = "idle"]
    /\ req' = [req EXCEPT ![r] = NoReq]
    /\ token' = [token EXCEPT ![r] = ""]
    /\ extra_context' = [extra_context EXCEPT ![r] = <<>>]
    /\ temp_dir' = [temp_dir EXCEPT ![r] = NoDir]
    /\ resp' = [resp EXCEPT ![r] = NoResp]
    /\ gitLog' = [gitLog EXCEPT ![r] = <<>>]
    /\ apiLog' = [apiLog EXCEPT ![r] = <<>>]
    /\ engineLog' = [engineLog EXCEPT ![r] = <<>>]
    /\ UNCHANGED <<dirs, repos, index_exists, session_token, env_token, otherVars>>

GenIdle ==
    /\ pc = [r \in Requests |-> "idle"]
    /\ req = [r \in Requests |-> NoReq]
    /\ token = [r \in Requests |-> ""]
    /\ extra_context = [r \in Requests |-> <<>>]
    /\ temp_dir = [r \in Requests |-> NoDir]
    /\ resp = [r \in Requests |-> NoResp]
    /\ gitLog = [r \in Requests |-> <<>>]
    /\ apiLog = [r \in Requests |-> <<>>]
    /\ engineLog = [r \in Requests |-> <<>>]
    /\ dirs = {}
    /\ repos = {}

(***************************************************************************)
(* The context builder on its own: every schema and override set below.    *)
(***************************************************************************)
CbKeys == {"project_name", "r_version", "__prompts__", "_jinja2_env_vars", "note"}

\* the dict holding the keys of f whose value is not Absent
Present(f) == [k \in {x \in DOMAIN f : f[x].t # "absent"} |-> f[k]]

CbDict(pn, rv, pr, je, nt) ==
    Present([k \in CbKeys |->
        IF k = "project_name" THEN pn
        ELSE IF k = "r_version" THEN rv
        ELSE IF k = "__prompts__" THEN pr
        ELSE IF k = "_jinja2_env_vars" THEN je
        ELSE nt])

CbSchemas ==
    { CbDict(pn, rv, pr, je, Absent) :
        pn \in {Absent, PyStr(""), PyStr("Demo")},
        rv \in {Absent, PyStr("4.5.1"), PyBool("True")},
        pr \in {Absent, PyDict("{...}")},
        je \in {Absent, PyDict("{...}")} }

CbOverrideSets ==
    { CbDict(pn, rv, pr, Absent, nt) :
        pn \in {Absent, PyStr(""), PyStr("My Project"), PyInt("2"), PyNone},
        rv \in {Absent, PyStr("4.4.0"), PyInt("2"), PyBool("False")},
        pr \in {Absent, PyStr("x"), PyDict("{}")},
        nt \in {Absent, PyStr("y")} }

CbIdle ==
    /\ cb_cfg = EmptyDict
    /\ cb_overrides = EmptyDict
    /\ cb_out = <<>>

CbBuild ==
    /\ cb_out = <<>>
    /\ cb_out' = <<build_extra_context_from_template(cb_cfg, cb_overrides)>>
    /\ UNCHANGED <<cb_cfg, cb_overrides, genVars, sgVars, auVars, ctVars, zpVars>>

(***************************************************************************)
(* app/services/generator.py: generate_cookiecutter_project, called by     *)
(* scripts/test_cookiecutters.py: main() and generate_template().          *)
(***************************************************************************)
\* the index the script iterates over, in file order
ScriptTemplates == <<"article", "data", "bare", "gone">>

SgIdle ==
    /\ sg_pc = "exit"
    /\ sg_todo = <<>>
    /\ sg_name = ""
    /\ sg_temp_dir = NoDir
    /\ sg_engine = "none"
    /\ sg_result = <<>>
    /\ sg_dirs = {}
    /\ sg_failures = {}
    /\ sg_context = <<>>

\* main(): load_templates_index(), then the for loop
SgMain ==
    /\ sg_pc = "exit"
    /\ sg_pc' = "loop"
    /\ sg_todo' = ScriptTemplates
    /\ sg_failures' = {}
    /\ UNCHANGED <<sg_name, sg_context, sg_temp_dir, sg_engine, sg_result, sg_dirs,
                   genVars, cbVars, auVars, ctVars, zpVars>>

\* main(): the loop is over
SgExit ==
    /\ sg_pc = "loop"
    /\ sg_todo = <<>>
    /\ sg_pc' = "exit"
    /\ UNCHANGED <<sg_todo, sg_name, sg_context, sg_temp_dir, sg_engine, sg_result, sg_dirs,
                   sg_failures, genVars, cbVars, auVars, ctVars, zpVars>>

\* except Exception as e: failures[name] = ...   (main() 160-164)
SgFail ==
    /\ sg_pc' = "loop"
    /\ sg_failures' = sg_failures \cup {sg_name}

\* scripts/test_cookiecutters.py generate_template 85-91: the project name the
\* script passes, both as req.project_name and as project_name_fallback
ScriptProjectName(name) ==
    IF name \in {"article", "presentation"} THEN PyStr(name)
    ELSE IF name = "data" THEN PyStr("recap-data-template")
    ELSE PyNone

\* the RequestStub of generate_template 94-116: the attributes
\* build_extra_context reads
RequestStub(name) ==
    [k \in {"template_name", "project_name", "r", "r_version", "latex",
            "first_name", "last_name", "email", "institution"} |->
        IF k = "template_name" THEN PyStr(name)
        ELSE IF k = "project_name" THEN ScriptProjectName(name)
        ELSE IF name = "data" /\ k = "r" THEN PyBool("True")
        ELSE IF name = "data" /\ k = "r_version" THEN PyStr("4.5.1")
        ELSE IF name = "data" /\ k = "latex" THEN PyStr("auto")
        ELSE IF name \in {"data", "article", "presentation"}
                /\ k \in {"first_name", "last_name", "email", "institution"}
        THEN PyStr("Morgan")
        ELSE PyNone]

\* a or b
PyOr(a, b) == IF Truthy(a) THEN a ELSE b

\* app/services/generator.py build_extra_context
build_extra_context(request, project_name_fallback) ==
    LET name == request["template_name"].v
        keys == IF name = "data"
                THEN {"project_name", "r", "r_version", "latex", "first_name",
                      "last_name", "email", "institution"}
                ELSE IF name \in {"article", "presentation"}
                THEN {"project_name", "first_name", "last_name", "email",
                      "institution"}
                ELSE {"project_name"}
    IN  [k \in keys |->
            IF k = "project_name"
            THEN str_or_empty(PyOr(request["project_name"], project_name_fallback))
            ELSE str_or_empty(request[k])]

\* generate_template up to the call, then generate_cookiecutter_project 83-87
SgGenerate ==
    /\ sg_pc = "loop"
    /\ sg_todo # <<>>
    /\ sg_todo' = Tail(sg_todo)
    /\ sg_name' = Head(sg_todo)
    /\ sg_temp_dir' = NoDir
    /\ sg_engine' = "none"
    /\ sg_result' = <<>>
    /\ IF Head(sg_todo) = "" \/ ~resolve_template_path(TRUE, Head(sg_todo)).ok
       THEN /\ sg_pc' = "loop"
            /\ sg_failures' = sg_failures \cup {Head(sg_todo)}
            /\ sg_context' = <<>>
       ELSE /\ sg_pc' = "gen_mkdtemp"
            /\ sg_context' = <<build_extra_context(RequestStub(Head(sg_todo)),
                                                   ScriptProjectName(Head(sg_todo)))>>
            /\ UNCHANGED sg_failures
    /\ UNCHANGED <<sg_dirs, genVars, cbVars, auVars, ctVars, zpVars>>

\* generate_cookiecutter_project 89
SgMkdtemp ==
    /\ sg_pc = "gen_mkdtemp"
    /\ \E d \in DirNames \ sg_dirs :
        /\ sg_temp_dir' = d
        /\ sg_dirs' = sg_dirs \cup {d}
    /\ sg_pc' = "gen_render"
    /\ UNCHANGED <<sg_todo, sg_name, sg_context, sg_engine, sg_result, sg_failures,
                   genVars, cbVars, auVars, ctVars, zpVars>>

\* except Exception: shutil.rmtree(temp_dir, ignore_errors=True); raise
generator_cleanup_skipped(ds, d) == ds

generator_cleanup(ds, d) == ds \ {d}

\* what the caller holds after a successful call: result["temp_dir"]
generator_result(d) == <<d>>

\* generate_cookiecutter_project 90-105
SgRender ==
    /\ sg_pc = "gen_render"
    /\ \/ \* cookiecutter() returned: the Generation Result goes to the caller
          /\ sg_engine' = "ok"
          /\ sg_result' = generator_result(sg_temp_dir)
          /\ sg_pc' = "copy"
          /\ UNCHANGED <<sg_dirs, sg_failures>>
       \/ \* cookiecutter() raised
          /\ sg_engine' = "raised"
          /\ sg_dirs' = generator_cleanup(sg_dirs, sg_temp_dir)
          /\ SgFail
          /\ UNCHANGED sg_result
    /\ UNCHANGED <<sg_todo, sg_name, sg_context, sg_temp_dir, genVars, cbVars, auVars, ctVars, zpVars>>

\* generate_template 125-128: rmtree(dest), copytree(output_dir, dest)
SgCopy ==
    /\ sg_pc = "copy"
    /\ \/ sg_pc' = "sanity" /\ UNCHANGED sg_failures
       \/ SgFail
    /\ UNCHANGED <<sg_todo, sg_name, sg_context, sg_temp_dir, sg_engine, sg_result, sg_dirs,
                   genVars, cbVars, auVars, ctVars, zpVars>>

\* generate_template 132: sanity_check(name, dest)
SgSanity ==
    /\ sg_pc = "sanity"
    /\ \/ sg_pc' = "cleanup" /\ UNCHANGED sg_failures
       \/ SgFail
    /\ UNCHANGED <<sg_todo, sg_name, sg_context, sg_temp_dir, sg_engine, sg_result, sg_dirs,
                   genVars, cbVars, auVars, ctVars, zpVars>>

\* generate_template 134: shutil.rmtree(temp_dir, ignore_errors=True)
SgCleanup ==
    /\ sg_pc = "cleanup"
    /\ sg_dirs' = sg_dirs \ {sg_result[1]}
    /\ sg_pc' = "loop"
    /\ UNCHANGED <<sg_todo, sg_name, sg_context, sg_temp_dir, sg_engine, sg_result,
                   sg_failures, genVars, cbVars, auVars, ctVars, zpVars>>

(***************************************************************************)
(* app/auth.py: github_login, github_callback, github_me (the same three   *)
(* routes are repeated in app/main.py 536-646).                            *)
(***************************************************************************)
Clients == {"alice", "bob"}

\* nonces os.urandom can draw: 1..MaxNonce
MaxNonce == 2

SecretKey == "session_secret_key"
Keys == {SecretKey, "another-key"}

\* itsdangerous URLSafeSerializer(key, salt): dumps appends the signature of
\* the payload under the key; loads recomputes it and compares.
Signature(key, payload) == <<key, payload>>
dumps(key, nonce) == [form |-> "token", nonce |-> nonce, sig |-> Signature(key, nonce)]

loads_ok_unverified(key, state) == TRUE

loads_ok(key, state) ==
    state.form = "token" /\ state.sig = Signature(key, state.nonce)

NoState == [form |-> "absent", nonce |-> 0, sig |-> <<>>]
EmptyState == [form |-> "empty", nonce |-> 0, sig |-> <<>>]

\* state values a caller can put in the callback URL: none, an empty one,
\* anything dumps() produces under either key, and a signature moved to
\* another payload
SuppliedStates ==
    {NoState, EmptyState}
        \cup {dumps(k, n) : k \in Keys, n \in 1 .. MaxNonce}
        \cup {[form |-> "token", nonce |-> n, sig |-> Signature(SecretKey, 0)] :
                n \in 1 .. MaxNonce}

StateGiven(state) == state.form = "token"

Codes == {"", "code"}

NoSession == [oauth_state |-> NoState, github_token |-> "", github_user |-> ""]

\* settings: github_client_id, github_client_secret, github_redirect_uri and
\* oauth_success_redirect set?
OAuthConfig(id, secret, uri, success) ==
    [client_id |-> id, client_secret |-> secret, redirect_uri |-> uri,
     success_redirect |-> success]

OAuthConfigs ==
    { OAuthConfig(TRUE, TRUE, TRUE, s) : s \in BOOLEAN }
        \cup { OAuthConfig(FALSE, TRUE, TRUE, FALSE),
               OAuthConfig(TRUE, FALSE, TRUE, FALSE),
               OAuthConfig(TRUE, TRUE, FALSE, FALSE) }

\* what the token endpoint can do: no answer (status 0), or a status with a
\* body that is not JSON, JSON without access_token, with an empty one, or
\* with a token
ExchangeAnswers ==
    {[status |-> 0, body |-> "none"]}
        \cup {[status |-> st, body |-> b] :
                st \in {200, 302, 400, 503},
                b \in {"not_json", "json_no_token", "json_empty_token", "json_token"}}
NotSent == [status |-> -1, body |-> "none"]

\* what GET /user can do: no answer (0) or a status; a 204 answer has no
\* body, so resp.json() raises on it
ProfileAnswers == {0, 200, 204, 401, 503}

\* the handler gets through `await client.get(...)` and, below 400, resp.json()
profile_read(p) == p # 0 /\ (p < 400 => p # 204)

AccessToken == "gho_token"

Call(op, client, code, state, exchange, profile, status, detail) ==
    [op |-> op, client |-> client, code |-> code, state |-> state,
     exchange |-> exchange, profile |-> profile, status |-> status,
     detail |-> detail]

NoCall == Call("none", "", "", NoState, NotSent, -1, 0, "")

AuIdle ==
    /\ session = [c \in Clients |-> NoSession]
    /\ oauth_cfg = OAuthConfig(TRUE, TRUE, TRUE, FALSE)
    /\ last = NoCall
    /\ replayed = FALSE

\* github_login 20-22: `if not client_id or not redirect_uri`
login_configured_always(cfg) == TRUE

login_configured(cfg) == cfg.client_id /\ cfg.redirect_uri

\* request.session["oauth_state"] = state
store_state_once(sess, state) ==
    IF sess.oauth_state.form = "absent" THEN [sess EXCEPT !.oauth_state = state]
    ELSE sess

\* a login that starts the session over
store_state_reset(sess, state) == [NoSession EXCEPT !.oauth_state = state]

store_state(sess, state) == [sess EXCEPT !.oauth_state = state]

\* github_login
Login(c) ==
    IF ~login_configured(oauth_cfg)
    THEN /\ last' = Call("login", c, "", NoState, NotSent, -1, 500,
                         "GitHub OAuth not configured (client_id/redirect_uri)")
         /\ replayed' = FALSE
         /\ UNCHANGED <<session, oauth_cfg, genVars, cbVars, sgVars, ctVars, zpVars>>
    ELSE \E nonce \in 1 .. MaxNonce :
            /\ session' = [session EXCEPT
                                ![c] = store_state(@, dumps(SecretKey, nonce))]
            /\ last' = Call("login", c, "", dumps(SecretKey, nonce), NotSent, -1,
                            307, "authorize")
            /\ replayed' = FALSE
            /\ UNCHANGED <<oauth_cfg, genVars, cbVars, sgVars, ctVars, zpVars>>

\* a callback that consumes the state it accepted
store_token_consume_state(sess, p) ==
    [sess EXCEPT !.oauth_state = NoState,
                 !.github_token = AccessToken,
                 !.github_user = IF profile_read(p) /\ p < 400 THEN "user" ELSE @]

\* github_callback 89-90, 104-105: request.session["github_token"] =
\* access_token, then request.session["github_user"] = me.json() when the
\* profile answer is below 400; no other key of the session is written
store_token(sess, p) ==
    [sess EXCEPT !.github_token = AccessToken,
                 !.github_user = IF profile_read(p) /\ p < 400 THEN "user" ELSE @]

\* the same client sends the callback it was just redirected from once more
Replayed(prev, cur) ==
    /\ prev.op = "callback" /\ prev.status = 307
    /\ cur.op = "callback" /\ cur.client = prev.client
    /\ cur.code = prev.code /\ cur.state = prev.state

\* a state check that compares the supplied state with the stored one
callback_precheck_bound(sess, cfg, code, state) ==
    IF code = "" THEN "Missing 'code' parameter"
    ELSE IF sess.oauth_state = NoState \/ ~StateGiven(state) THEN "Missing OAuth state"
    ELSE IF ~loads_ok(SecretKey, state) \/ state # sess.oauth_state
    THEN "Invalid OAuth state"
    ELSE IF ~cfg.client_id \/ ~cfg.client_secret \/ ~cfg.redirect_uri
    THEN "GitHub OAuth not configured"
    ELSE ""

\* a state check that does not ask for a stored state
callback_precheck_no_expected(sess, cfg, code, state) ==
    IF code = "" THEN "Missing 'code' parameter"
    ELSE IF ~StateGiven(state) THEN "Missing OAuth state"
    ELSE IF ~loads_ok(SecretKey, state) THEN "Invalid OAuth state"
    ELSE IF ~cfg.client_id \/ ~cfg.client_secret \/ ~cfg.redirect_uri
    THEN "GitHub OAuth not configured"
    ELSE ""

callback_precheck_state_first(sess, cfg, code, state) ==
    IF sess.oauth_state = NoState \/ ~StateGiven(state) THEN "Missing OAuth state"
    ELSE IF ~loads_ok(SecretKey, state) THEN "Invalid OAuth state"
    ELSE IF code = "" THEN "Missing 'code' parameter"
    ELSE IF ~cfg.client_id \/ ~cfg.client_secret \/ ~cfg.redirect_uri
    THEN "GitHub OAuth not configured"
    ELSE ""

\* github_callback 42-58: the checks made before anything is sent; "" when
\* they all pass
callback_precheck(sess, cfg, code, state) ==
    IF code = "" THEN "Missing 'code' parameter"
    ELSE IF sess.oauth_state = NoState \/ ~StateGiven(state) THEN "Missing OAuth state"
    ELSE IF ~loads_ok(SecretKey, state) THEN "Invalid OAuth state"
    ELSE IF ~cfg.client_id \/ ~cfg.client_secret \/ ~cfg.redirect_uri
    THEN "GitHub OAuth not configured"
    ELSE ""

\* github_callback
Callback(c) ==
    \E code \in Codes, state \in SuppliedStates :
      /\
        LET rejected == callback_precheck(session[c], oauth_cfg, code, state)
        IN  IF rejected # ""
            THEN /\ last' = Call("callback", c, code, state, NotSent, -1,
                                 IF rejected = "GitHub OAuth not configured"
                                 THEN 500 ELSE 400,
                                 rejected)
                 /\ UNCHANGED <<session, oauth_cfg, genVars, cbVars, sgVars, ctVars, zpVars>>
            ELSE \E x \in ExchangeAnswers :
                    IF x.status = 0
                    THEN /\ last' = Call("callback", c, code, state, x, -1, 502,
                                         "GitHub token exchange failed")
                         /\ UNCHANGED <<session, oauth_cfg, genVars, cbVars, sgVars, ctVars, zpVars>>
                    ELSE IF x.status >= 400
                    THEN /\ last' = Call("callback", c, code, state, x, -1, 502,
                                         "GitHub token exchange error")
                         /\ UNCHANGED <<session, oauth_cfg, genVars, cbVars, sgVars, ctVars, zpVars>>
                    ELSE IF x.body = "not_json"
                    THEN \* resp.json() raises: an unhandled exception
                         /\ last' = Call("callback", c, code, state, x, -1, 500,
                                         "Internal Server Error")
                         /\ UNCHANGED <<session, oauth_cfg, genVars, cbVars, sgVars, ctVars, zpVars>>
                    ELSE IF x.body # "json_token"
                    THEN /\ last' = Call("callback", c, code, state, x, -1, 502,
                                         "No access_token returned by GitHub")
                         /\ UNCHANGED <<session, oauth_cfg, genVars, cbVars, sgVars, ctVars, zpVars>>
                    ELSE \E p \in ProfileAnswers, kept \in BOOLEAN :
                            \* request.session["github_token"] = access_token.
                            \* When client.get raises (p = 0) or me.json()
                            \* raises (204) the exception is not caught by
                            \* the handler; whether the session
                            \* middleware still stores the written session is
                            \* not decided by this code: both are allowed.
                            /\ profile_read(p) => kept
                            /\ session' =
                                IF ~kept THEN session
                                ELSE [session EXCEPT ![c] = store_token(@, p)]
                            /\ last' = Call("callback", c, code, state, x, p,
                                            IF profile_read(p) THEN 307 ELSE 500,
                                            IF profile_read(p) THEN "/docs"
                                            ELSE "Internal Server Error")
                            /\ UNCHANGED <<oauth_cfg, genVars, cbVars, sgVars, ctVars, zpVars>>
      /\ replayed' = Replayed(last, last')

\* github_me
Me(c) ==
    /\ IF session[c].github_token = ""
       THEN last' = Call("me", c, "", NoState, NotSent, -1, 401, "authenticated: false")
       ELSE \E p \in ProfileAnswers :
                last' = Call("me", c, "", NoState, NotSent, p,
                             IF ~profile_read(p) THEN 500
                             ELSE IF p >= 400 THEN p ELSE 200,
                             IF ~profile_read(p) THEN "Internal Server Error"
                             ELSE IF p >= 400 THEN "authenticated: false"
                             ELSE "authenticated: true")
    /\ replayed' = FALSE
    /\ UNCHANGED <<session, oauth_cfg, genVars, cbVars, sgVars, ctVars, zpVars>>

(***************************************************************************)
(* The read-only catalog endpoints.                                        *)
(*   router : app/cookiecutter.py  list_templates, get_template_config     *)
(*   main   : app/main.py          list_templates, get_template_config     *)
(***************************************************************************)
Endpoints == {"router", "main"}

CtResponse(endpoint, op, name, status, detail, names, schema) ==
    [endpoint |-> endpoint, op |-> op, name |-> name, status |-> status,
     detail |-> detail, names |-> names, schema |-> schema]

CtNoResp == CtResponse("", "none", "", 0, "", {}, EmptyDict)

CtIdle ==
    /\ ct_index = TRUE
    /\ ct_disk = EmptyDict
    /\ ct_resp = CtNoResp
    /\ ct_names = IndexTemplates
    /\ ct_fresh = TRUE

\* TemplateListResponse(templates=data["templates"]): name -> path, title,
\* description of the index; no template schema is read
list_templates(endpoint, ix, names) ==
    IF ~ix
    THEN CtResponse(endpoint, "list", "", 500, "Template configuration not found",
                    {}, EmptyDict)
    ELSE CtResponse(endpoint, "list", "", 200, "", names, EmptyDict)

\* the schema shipped with the templates
CtShipped == CbDict(PyStr("Demo"), PyStr("4.5.1"), Absent, Absent, Absent)

\* a registry read once when the module is imported and kept in memory
get_template_config_preloaded(endpoint, ix, names, disk, template_name) ==
    IF ~ix
    THEN CtResponse(endpoint, "config", template_name, 500,
                    "Template configuration not found", {}, EmptyDict)
    ELSE IF template_name \notin IndexTemplates
    THEN CtResponse(endpoint, "config", template_name, 404, "Template not found",
                    {}, EmptyDict)
    ELSE IF ~(TemplateDirExists(template_name) /\ TemplateCfgExists(template_name))
    THEN CtResponse(endpoint, "config", template_name, 404,
                    "Template directory or configuration not found", {}, EmptyDict)
    ELSE CtResponse(endpoint, "config", template_name, 200, "", {}, CtShipped)

\* get_template_config: the body is the template's cookiecutter.json as
\* json.load returned it, the index and the schema being opened and read by
\* the call itself (_load_main_config, _load_template_config)
get_template_config(endpoint, ix, names, disk, template_name) ==
    IF ~ix
    THEN CtResponse(endpoint, "config", template_name, 500,
                    "Template configuration not found", {}, EmptyDict)
    ELSE IF template_name \notin names
    THEN CtResponse(endpoint, "config", template_name, 404, "Template not found",
                    {}, EmptyDict)
    ELSE IF endpoint = "router" /\ ~TemplateDirExists(template_name)
    THEN CtResponse(endpoint, "config", template_name, 404,
                    "Template directory not found", {}, EmptyDict)
    ELSE IF ~(TemplateDirExists(template_name) /\ TemplateCfgExists(template_name))
    THEN CtResponse(endpoint, "config", template_name, 404,
                    "Configuration for template not found", {}, EmptyDict)
    ELSE CtResponse(endpoint, "config", template_name, 200, "", {}, disk)

CtList(endpoint) ==
    /\ ct_resp' = list_templates(endpoint, ct_index, ct_names)
    /\ ct_fresh' = TRUE
    /\ UNCHANGED <<ct_index, ct_disk, ct_names,
                   genVars, cbVars, sgVars, auVars, zpVars>>

CtConfig(endpoint, template_name) ==
    /\ ct_resp' = get_template_config(endpoint, ct_index, ct_names, ct_disk,
                                      template_name)
    /\ ct_fresh' = TRUE
    /\ UNCHANGED <<ct_index, ct_disk, ct_names,
                   genVars, cbVars, sgVars, auVars, zpVars>>

\* The registry files are edited on disk while the service runs (by an
\* operator, not by the service): nothing in the service is told about it.
\* what an edit can put in place of the shipped schema and index
CtEditedSchemas ==
    { CbDict(PyStr("Edited"), rv, Absent, Absent, nt) :
        rv \in {Absent, PyStr("4.5.1")}, nt \in {Absent, PyStr("n")} }
CtEditedIndexes == { IndexTemplates \ {"data"}, IndexTemplates \ {"article", "gone"} }

CtEditIndex(names) ==
    /\ ct_index
    /\ names # ct_names
    /\ ct_names' = names
    /\ ct_fresh' = FALSE
    /\ UNCHANGED <<ct_index, ct_disk, ct_resp, genVars, cbVars, sgVars, auVars, zpVars>>

CtEditSchema(schema) ==
    /\ schema # ct_disk
    /\ ct_disk' = schema
    /\ ct_fresh' = FALSE
    /\ UNCHANGED <<ct_index, ct_names, ct_resp, genVars, cbVars, sgVars, auVars, zpVars>>

(***************************************************************************)
(* app/services/generator.py: zip_directory_with_symlinks.                 *)
(***************************************************************************)
\* the paths beneath root the model looks at, in the order the directory scan
\* yields them, each with its parent ("" is root)
ZpOrder == <<"a", "d", "d/f", "d/l", "d/s", "d/s/g">>
ZpPaths == {ZpOrder[i] : i \in DOMAIN ZpOrder}

ZpParent(p) ==
    IF p \in {"a", "d"} THEN ""
    ELSE IF p = "d/s/g" THEN "d/s"
    ELSE "d"

\* what a path can be: nothing, a regular file, a directory, a symbolic link
\* (to a regular file, to a directory, to nothing), or a FIFO
ZpKinds == {"absent", "file", "dir", "link_file", "link_dir", "link_dangling", "fifo"}
ZpLinks == {"link_file", "link_dir", "link_dangling"}

\* a path exists only inside a directory, reached directly or through a link
ZpTrees ==
    { tr \in [ZpPaths -> ZpKinds] :
        \A p \in ZpPaths :
            (tr[p] # "absent" /\ ZpParent(p) # "") =>
                tr[ZpParent(p)] \in {"dir", "link_dir"} }

ZpIdle ==
    /\ zp_tree = [p \in ZpPaths |-> "absent"]
    /\ zp_out = <<>>

\* Path(root) / p, and file_path.relative_to(root)
ZpPath(root, p) == [root |-> root, rel |-> p]
relative_to(file_path, root) ==
    IF file_path.root = root THEN file_path.rel ELSE "ValueError"

\* Path.is_symlink(), Path.is_file() (which follows links), os.readlink()
is_symlink(tr, p) == tr[p] \in ZpLinks
is_file(tr, p) == tr[p] \in {"file", "link_file"}
readlink(tr, p) == [target_of |-> p]
file_content(tr, p) == [content_of |-> p]

\* Path(root).rglob('*'): every entry beneath root, descending into the
\* directories but not through symbolic links to directories
RECURSIVE rglob_following(_, _)
rglob_following(tr, p) ==
    /\ tr[p] # "absent"
    /\ \/ ZpParent(p) = ""
       \/ /\ tr[ZpParent(p)] \in {"dir", "link_dir"}
          /\ rglob_following(tr, ZpParent(p))

RECURSIVE rglob(_, _)
rglob(tr, p) ==
    /\ tr[p] # "absent"
    /\ \/ ZpParent(p) = ""
       \/ /\ tr[ZpParent(p)] = "dir"
          /\ rglob(tr, ZpParent(p))

\* one entry of the archive: its name, whether it carries the Unix symlink
\* file type (0o120000) in external_attr, and its payload
ZipEntry(name, symlink, payload) ==
    [name |-> name, symlink |-> symlink, payload |-> payload]

\* the body of the for loop for one path: the entries it adds
zip_one(tr, root, p) ==
    LET arcname == relative_to(ZpPath(root, p), root)
    IN  IF is_symlink(tr, p)
        THEN <<ZipEntry(arcname, TRUE, readlink(tr, p))>>
        ELSE IF is_file(tr, p)
        THEN <<ZipEntry(arcname, FALSE, file_content(tr, p))>>
        ELSE <<>>

\* zip_directory_with_symlinks(root): the entries of the archive, in order
RECURSIVE zip_from(_, _, _)
zip_from(tr, root, i) ==
    IF i > Len(ZpOrder) THEN <<>>
    ELSE (IF rglob(tr, ZpOrder[i]) THEN zip_one(tr, root, ZpOrder[i]) ELSE <<>>)
            \o zip_from(tr, root, i + 1)

zip_directory_with_symlinks(tr, root) == zip_from(tr, root, 1)

ZpBuild ==
    /\ zp_out = <<>>
    /\ zp_out' = <<zip_directory_with_symlinks(zp_tree, "root")>>
    /\ UNCHANGED <<zp_tree, genVars, cbVars, sgVars, auVars, ctVars>>

(***************************************************************************)
(* Specifications.                                                         *)
(***************************************************************************)
Init ==
    /\ GenIdle
    /\ index_exists \in BOOLEAN
    /\ session_token \in {"", "sesstok"}
    /\ env_token \in {"", "envtok"}
    /\ CbIdle /\ SgIdle /\ AuIdle /\ CtIdle /\ ZpIdle

Next ==
    \E r \in Requests :
        \/ StartDownload(r)
        \/ StartGenerate(r)
        \/ StartGithub(r)
        \/ StartGhRepoCreate(r)
        \/ PostRepo(r)
        \/ ValidateTemplate(r)
        \/ Mkdtemp(r)
        \/ Render(r)
        \/ Zip(r)
        \/ Git(r)
        \/ Push(r)
        \/ Finally(r)
        \/ NextRequest(r)

Spec == Init /\ [][Next]_vars

GenFrozen ==
    /\ GenIdle
    /\ index_exists = TRUE
    /\ session_token = ""
    /\ env_token = ""

InitCtx ==
    /\ GenFrozen /\ SgIdle /\ AuIdle /\ CtIdle /\ ZpIdle
    /\ cb_cfg \in CbSchemas
    /\ cb_overrides \in CbOverrideSets
    /\ cb_out = <<>>

NextCtx == CbBuild

SpecCtx == InitCtx /\ [][NextCtx]_vars

InitGen == GenFrozen /\ CbIdle /\ SgIdle /\ AuIdle /\ CtIdle /\ ZpIdle

NextGen ==
    \/ SgMain
    \/ SgExit
    \/ SgGenerate
    \/ SgMkdtemp
    \/ SgRender
    \/ SgCopy
    \/ SgSanity
    \/ SgCleanup

SpecGen == InitGen /\ [][NextGen]_vars

InitAuth ==
    /\ GenFrozen /\ CbIdle /\ SgIdle /\ CtIdle /\ ZpIdle
    /\ session = [c \in Clients |-> NoSession]
    /\ oauth_cfg \in OAuthConfigs
    /\ last = NoCall
    /\ replayed = FALSE

NextAuth == \E c \in Clients : Login(c) \/ Callback(c) \/ Me(c)

SpecAuth == InitAuth /\ [][NextAuth]_vars

InitCat ==
    /\ GenFrozen /\ CbIdle /\ SgIdle /\ AuIdle /\ ZpIdle
    /\ ct_index \in BOOLEAN
    /\ ct_disk \in CbSchemas
    /\ ct_resp = CtNoResp
    /\ ct_names = IndexTemplates
    /\ ct_fresh = TRUE

NextCat ==
    \E endpoint \in Endpoints :
        \/ CtList(endpoint)
        \/ \E template_name \in TemplateNames : CtConfig(endpoint, template_name)

SpecCat == InitCat /\ [][NextCat]_vars

\* The catalog endpoints while the registry files are edited between calls.
InitReg ==
    /\ GenFrozen /\ CbIdle /\ SgIdle /\ AuIdle /\ ZpIdle
    /\ ct_index \in BOOLEAN
    /\ ct_disk = CtShipped
    /\ ct_resp = CtNoResp
    /\ ct_names = IndexTemplates
    /\ ct_fresh = TRUE

NextReg ==
    \/ \E endpoint \in Endpoints : CtList(endpoint)
    \/ \E endpoint \in Endpoints, template_name \in TemplateNames :
            CtConfig(endpoint, template_name)
    \/ \E names \in CtEditedIndexes \cup {IndexTemplates} : CtEditIndex(names)
    \/ \E schema \in CtEditedSchemas \cup {CtShipped} : CtEditSchema(schema)

SpecReg == InitReg /\ [][NextReg]_vars

\* Two requests handled at once by the two routes of app/cookiecutter.py, both
\* for the same template and with a token in the Authorization header.
ConcRequests == {"r1", "r2"}

InitConc ==
    /\ pc = [r \in ConcRequests |-> "idle"]
    /\ req = [r \in ConcRequests |-> NoReq]
    /\ token = [r \in ConcRequests |-> ""]
    /\ extra_context = [r \in ConcRequests |-> <<>>]
    /\ temp_dir = [r \in ConcRequests |-> NoDir]
    /\ resp = [r \in ConcRequests |-> NoResp]
    /\ gitLog = [r \in ConcRequests |-> <<>>]
    /\ apiLog = [r \in ConcRequests |-> <<>>]
    /\ engineLog = [r \in ConcRequests |-> <<>>]
    /\ dirs = {}
    /\ repos = {}
    /\ index_exists = TRUE
    /\ session_token = ""
    /\ env_token = ""
    /\ CbIdle /\ SgIdle /\ AuIdle /\ CtIdle /\ ZpIdle

ConcInput(r) ==
    /\ req'[r].template_name = "data"
    /\ req'[r].body = EmptyDict
    /\ req'[r].header \in {NoHeader, [scheme |-> "bearer", cred |-> "hdrtok"]}

NextConc ==
    \E r \in ConcRequests :
        \/ StartDownload(r) /\ ConcInput(r)
        \/ StartGithub(r) /\ ConcInput(r)
        \/ PostRepo(r)
        \/ ValidateTemplate(r)
        \/ Mkdtemp(r)
        \/ Render(r)
        \/ Zip(r)
        \/ Git(r)
        \/ Push(r)
        \/ Finally(r)
        \/ NextRequest(r)

SpecConc == InitConc /\ [][NextConc]_vars

InitZip ==
    /\ GenFrozen /\ CbIdle /\ SgIdle /\ AuIdle /\ CtIdle
    /\ zp_tree \in ZpTrees
    /\ zp_out = <<>>

NextZip == ZpBuild

SpecZip == InitZip /\ [][NextZip]_vars

(***************************************************************************)
(* Properties.                                                             *)
(***************************************************************************)
InTry == {"render", "zip", "git", "push", "finally"}

\* C1: in all four handlers the temporary directory is deleted on every exit
\* path: a handler that has returned or raised has no temporary directory left
\* on disk, and every directory on disk belongs to a handler still inside its
\* try block.
C1_TempDirDeletedOnEveryExit ==
    /\ \A r \in Requests : pc[r] \in {"idle", "done"} => temp_dir[r] \notin dirs
    /\ \A d \in dirs : \E r \in Requests : temp_dir[r] = d /\ pc[r] \in InTry

C1_Witness ==
    \E r \in Requests :
        /\ pc[r] = "done"
        /\ temp_dir[r] # NoDir
        /\ resp[r].status = 500
        /\ gitLog[r] # <<>>

\* C2: every Generation Result returned by generate_cookiecutter_project has
\* its temp_dir deleted once the consuming steps of the caller are over, also
\* when copying the output or the sanity check raised.
C2_ResultTempDirDeleted ==
    (sg_pc \in {"loop", "exit"} /\ sg_result # <<>>) => sg_result[1] \notin sg_dirs

\* an override of a non-reserved schema key whose type differs from the default's
TypeMismatch(r) ==
    /\ req[r].kind \in RouterKinds
    /\ load_template_config(index_exists, req[r].template_name).ok
    /\ LET cfg == TemplateCfg(req[r].template_name)
       IN  \E k \in ((DOMAIN req[r].body) \cap (DOMAIN cfg)) \ RESERVED_CONFIG_KEYS :
                req[r].body[k].t # cfg[k].t

\* C3: a request with a type-mismatched override is rejected with 400 (after
\* the token check of the provisioning route): the engine is not invoked and
\* no temporary directory is created.
C3_TypeMismatchRejected ==
    \A r \in Requests :
        TypeMismatch(r) =>
            /\ pc[r] = "done"
            /\ resp[r].status = 400 \/ resp[r] = MissingToken
            /\ engineLog[r] = <<>>
            /\ temp_dir[r] = NoDir

\* the conditions under which the callback may store a token
CallbackAccepted(c, call, before) ==
    /\ call.op = "callback"
    /\ call.client = c
    /\ call.code # ""
    /\ before.oauth_state # NoState
    /\ loads_ok(SecretKey, before.oauth_state)
    /\ StateGiven(call.state)
    /\ call.state.sig = Signature(SecretKey, call.state.nonce)
    /\ call.exchange.status \in 1 .. 399
    /\ call.exchange.body = "json_token"

\* C4: the session's github_token changes only in a callback that had a code,
\* a session holding an oauth_state issued by login, a supplied state signed
\* under the configured secret and a token exchange answered below 400 with a
\* non-empty access_token; every other callback is rejected (status >= 400)
\* and stores nothing.
C4_TokenOnlyFromVerifiedCallback ==
    [][\A c \in Clients :
        /\ session'[c].github_token # session[c].github_token =>
                /\ CallbackAccepted(c, last', session[c])
                /\ session'[c].github_token = AccessToken
        /\ (last'.op = "callback" /\ last'.client = c
                /\ ~CallbackAccepted(c, last', session[c])) =>
                /\ last'.status >= 400
                /\ session'[c] = session[c]]_vars

C4_Witness ==
    /\ last.op = "callback"
    /\ last.status = 307
    /\ session[last.client].github_token = AccessToken
    /\ session[last.client].oauth_state # NoState

NoUsableToken(r) ==
    /\ req[r].kind \in ProvisionKinds
    /\ ~(req[r].header.scheme = "bearer" /\ req[r].header.cred # "")
    /\ session_token = ""
    /\ env_token = ""

\* C5: a provisioning request with no usable token ends with 401 "Missing
\* GitHub token" having sent nothing to the hosting API, created no temporary
\* directory, rendered nothing and run no git command.
C5_MissingTokenBeforeAnything ==
    \A r \in Requests :
        NoUsableToken(r) =>
            /\ pc[r] = "done"
            /\ resp[r].status = 401
            /\ Contains(resp[r].detail, Lit("Missing GitHub token"))
            /\ apiLog[r] = <<>>
            /\ temp_dir[r] = NoDir
            /\ engineLog[r] = <<>>
            /\ gitLog[r] = <<>>

C5_Witness ==
    \E r \in Requests :
        /\ NoUsableToken(r)
        /\ req[r].header.scheme = "basic"
        /\ pc[r] = "done"
        /\ repos # {}

\* C6: when repository creation is answered with a status >= 400 the handler
\* fails with that status if it is 401, 403, 404 or 422 and with 502 otherwise
\* (no answer at all: 502); for a 422 JSON answer the detail holds the API's
\* message and its errors list when the answer has them; nothing is rendered
\* and no git command runs.
C6_CreationFailureMapped ==
    \A r \in Requests :
        (apiLog[r] # <<>> /\ (apiLog[r][1].status = 0 \/ apiLog[r][1].status >= 400)) =>
            LET a == apiLog[r][1]
            IN  /\ pc[r] = "done"
                /\ resp[r].status =
                        IF a.status \in {401, 403, 404, 422} THEN a.status ELSE 502
                /\ (a.status = 422 /\ a.body.json /\ a.body.message) =>
                        Contains(resp[r].detail, ApiMessage)
                /\ (a.status = 422 /\ a.body.json /\ a.body.errors) =>
                        Contains(resp[r].detail, ApiErrors)
                /\ engineLog[r] = <<>>
                /\ gitLog[r] = <<>>
                /\ temp_dir[r] = NoDir

C6_Witness ==
    \E r \in Requests :
        /\ req[r].kind = "github"
        /\ apiLog[r] # <<>>
        /\ apiLog[r][1].status = 422
        /\ apiLog[r][1].body.message /\ apiLog[r][1].body.errors
        /\ resp[r].status = 422

PushNonZero(r) ==
    /\ gitLog[r] # <<>>
    /\ gitLog[r][Len(gitLog[r])].cmd = "push"
    /\ gitLog[r][Len(gitLog[r])].outcome \in {"nonzero_stderr", "nonzero_silent"}

\* C7: after a push that exits non-zero the request fails with 500, its detail
\* holds "Git push failed" and the push's stderr, the created repository is
\* still there and no request other than the creating POST was sent, and the
\* temporary directory is deleted by the time the handler has ended.
C7_PushFailureNoRollback ==
    \A r \in Requests :
        PushNonZero(r) =>
            /\ pc[r] \in {"finally", "done"}
            /\ resp[r].status = 500
            /\ Contains(resp[r].detail, Lit("Git push failed: "))
            /\ Contains(resp[r].detail, Frag("stderr", "push"))
            /\ \A i \in DOMAIN apiLog[r] : apiLog[r][i].method = "POST"
            /\ Len(apiLog[r]) = 1
            /\ apiLog[r][1].name \in repos
            /\ pc[r] = "done" => temp_dir[r] \notin dirs

C7_Witness ==
    \E r \in Requests :
        /\ PushNonZero(r)
        /\ pc[r] = "done"
        /\ temp_dir[r] # NoDir

\* C8: when the engine raised, generate_cookiecutter_project has deleted its
\* temporary directory by the time the failure reaches the caller and returns
\* no result; a result exists only when the engine succeeded, and on return
\* its temp_dir still exists.
C8_EngineFailureCleansUp ==
    /\ sg_engine = "raised" => (sg_result = <<>> /\ sg_temp_dir \notin sg_dirs)
    /\ sg_result # <<>> => sg_engine = "ok"
    /\ sg_pc = "copy" => (sg_result = <<sg_temp_dir>> /\ sg_temp_dir \in sg_dirs)

C8_Witness ==
    /\ sg_engine = "raised"
    /\ sg_temp_dir # NoDir
    /\ sg_pc = "loop"
    /\ sg_name \in sg_failures

\* overrides whose keys are (non-reserved) schema keys, with the default's type
ValidOverrides(cfg, ov) ==
    \A k \in DOMAIN ov :
        k \in (DOMAIN cfg) \ RESERVED_CONFIG_KEYS /\ ov[k].t = cfg[k].t

Merged(cfg, ov, k) == IF k \in DOMAIN ov THEN ov[k] ELSE cfg[k]

\* C9 as first stated: for valid overrides every schema key is mapped to its
\* override value, or to its default when not overridden.
C9_AsStated ==
    (cb_out # <<>> /\ ValidOverrides(cb_cfg, cb_overrides)) =>
        \A k \in (DOMAIN cb_cfg) \ RESERVED_CONFIG_KEYS :
            /\ k \in DOMAIN cb_out[1]
            /\ cb_out[1][k] = Merged(cb_cfg, cb_overrides, k)

\* C9: for valid overrides every non-reserved schema key is mapped to its
\* override value, or to its default when not overridden, except that an empty
\* project_name is replaced by "project".
C9_ContextMergesOverrides ==
    (cb_out # <<>> /\ ValidOverrides(cb_cfg, cb_overrides)) =>
        \A k \in (DOMAIN cb_cfg) \ RESERVED_CONFIG_KEYS :
            /\ k \in DOMAIN cb_out[1]
            /\ cb_out[1][k] =
                IF k = "project_name" /\ ~Truthy(Merged(cb_cfg, cb_overrides, k))
                THEN PyStr("project")
                ELSE Merged(cb_cfg, cb_overrides, k)

C9_Witness ==
    /\ cb_out # <<>>
    /\ ValidOverrides(cb_cfg, cb_overrides)
    /\ DOMAIN cb_overrides = {"r_version"}
    /\ "project_name" \in DOMAIN cb_cfg
    /\ cb_out[1]["r_version"] = PyStr("4.4.0")
    /\ cb_out[1]["project_name"] = PyStr("Demo")

\* C10: no context passed to cookiecutter() holds a reserved key.
C10_NoReservedKeyRendered ==
    \A r \in Requests :
        \A i \in DOMAIN engineLog[r] :
            (DOMAIN engineLog[r][i]) \cap RESERVED_CONFIG_KEYS = {}

C10_Witness ==
    \E r \in Requests :
        /\ req[r].kind \in RouterKinds
        /\ "__prompts__" \in DOMAIN req[r].body
        /\ "__prompts__" \in DOMAIN TemplateCfg(req[r].template_name)
        /\ engineLog[r] # <<>>

\* C11: no body returned by the template listing or the template-config
\* endpoints holds a reserved schema key, whatever the template's
\* cookiecutter.json on disk declares.
C11_NoReservedKeyReturned ==
    ct_resp.status = 200 =>
        /\ DOMAIN ct_resp.schema \cap RESERVED_CONFIG_KEYS = {}
        /\ ct_resp.names \cap RESERVED_CONFIG_KEYS = {}

\* C12: every render context a context builder returns has a non-empty
\* project_name (here: the context build_extra_context returns inside
\* generate_cookiecutter_project).
C12_ProjectNameNonEmpty ==
    sg_context # <<>> =>
        /\ "project_name" \in DOMAIN sg_context[1]
        /\ Truthy(sg_context[1]["project_name"])

\* C13: a login that succeeds leaves in the caller's session exactly the state
\* it put in the authorize redirect, that state verifies under the configured
\* secret, and this holds whatever the session held before (a later login
\* overwrites the stored state); no other session is touched.
C13_LoginStoresRedirectState ==
    [][ (last'.op = "login" /\ last'.status = 307) =>
            /\ last'.state.form = "token"
            /\ session'[last'.client].oauth_state = last'.state
            /\ last'.state.sig = Signature(SecretKey, last'.state.nonce)
            /\ \A c \in Clients \ {last'.client} : session'[c] = session[c] ]_vars

\* a login made in a session that has already been through a whole login and
\* callback, leaving a state of another nonce than the other session's
C13_Witness ==
    /\ last.op = "login" /\ last.status = 307
    /\ session[last.client].github_token = AccessToken
    /\ session[last.client].oauth_state = last.state
    /\ \E c \in Clients \ {last.client} :
            /\ session[c].oauth_state.form = "token"
            /\ session[c].oauth_state # last.state

\* C14: a login with the client id or the redirect URI unconfigured fails
\* with 500 "GitHub OAuth not configured" and leaves every session as it was.
C14_LoginUnconfigured ==
    [][ (last'.op = "login" /\ (~oauth_cfg.client_id \/ ~oauth_cfg.redirect_uri)) =>
            /\ last'.status = 500
            /\ last'.detail = "GitHub OAuth not configured (client_id/redirect_uri)"
            /\ session' = session ]_vars

C14_Witness ==
    /\ last.op = "login" /\ last.status = 500
    /\ ~oauth_cfg.redirect_uri
    /\ session[last.client].oauth_state = NoState

\* C15: the callback rejects with 400 at the first failing precondition, in
\* the order missing code, missing stored or supplied state, state whose
\* signature does not verify; nothing was sent to the token endpoint.
C15_CallbackCheckOrder ==
    last.op = "callback" =>
        LET stored == session[last.client].oauth_state
            MissingCode == last.code = ""
            MissingState_ == stored.form = "absent" \/ last.state.form # "token"
            InvalidState == last.state.sig # Signature(SecretKey, last.state.nonce)
        IN  /\ MissingCode =>
                    /\ last.status = 400
                    /\ last.detail = "Missing 'code' parameter"
                    /\ last.exchange = NotSent
            /\ (~MissingCode /\ MissingState_) =>
                    /\ last.status = 400
                    /\ last.detail = "Missing OAuth state"
                    /\ last.exchange = NotSent
            /\ (~MissingCode /\ ~MissingState_ /\ InvalidState) =>
                    /\ last.status = 400
                    /\ last.detail = "Invalid OAuth state"
                    /\ last.exchange = NotSent

\* a callback with no code, no stored state and a state signed by another key:
\* all three checks would fail, the first one answers
C15_Witness ==
    /\ last.op = "callback" /\ last.code = ""
    /\ session[last.client].oauth_state = NoState
    /\ last.state.form = "token"
    /\ last.state.sig # Signature(SecretKey, last.state.nonce)
    /\ last.detail = "Missing 'code' parameter"

\* C16: once the token exchange of a callback has succeeded, whatever the
\* profile fetch does (an error status, no answer at all) the token is in the
\* session and the callback answers with its success redirect.
C16_ProfileFailureIgnored ==
    (/\ last.op = "callback"
     /\ last.exchange.status \in 1 .. 399
     /\ last.exchange.body = "json_token") =>
        /\ session[last.client].github_token = AccessToken
        /\ last.status = 307

\* C17: a callback that succeeds redirects to the configured success URL when
\* oauth_success_redirect is set and to the first allowed origin,
\* http://localhost:4000, when it is not.
C17_SuccessRedirectTarget ==
    (last.op = "callback" /\ last.status = 307) =>
        last.detail = IF oauth_cfg.success_redirect THEN "oauth_success_redirect"
                      ELSE "http://localhost:4000"

\* C18: me() without a session token answers 401 {authenticated: false} and
\* calls nothing; with a token it answers {authenticated: true, user} when the
\* hosting API answers below 400 and {authenticated: false} with the upstream
\* status when it answers 400 or above.
C18_MePassesUpstreamThrough ==
    last.op = "me" =>
        /\ session[last.client].github_token = "" =>
                /\ last.status = 401
                /\ last.detail = "authenticated: false"
                /\ last.profile = -1
        /\ (session[last.client].github_token # "" /\ last.profile \in 1 .. 399) =>
                /\ last.status = 200
                /\ last.detail = "authenticated: true"
        /\ (session[last.client].github_token # "" /\ last.profile >= 400) =>
                /\ last.status = last.profile
                /\ last.detail = "authenticated: false"

\* C19: whatever the interleaving of two generation requests, two requests
\* inside their try blocks never hold the same temporary directory, and the
\* directory of a request that has not reached its own cleanup is on disk: no
\* other request's cleanup removed it.
C19_TempDirsExclusive ==
    /\ \A r, q \in DOMAIN pc :
            (r # q /\ pc[r] \in InTry /\ pc[q] \in InTry) => temp_dir[r] # temp_dir[q]
    /\ \A r \in DOMAIN pc : pc[r] \in InTry => temp_dir[r] \in dirs

\* one request has run its cleanup while another request for the same
\* template is still pushing from its own directory
C19_Witness ==
    \E r, q \in DOMAIN pc :
        /\ r # q
        /\ pc[r] = "done" /\ temp_dir[r] # NoDir /\ temp_dir[r] \notin dirs
        /\ pc[q] = "push" /\ temp_dir[q] \in dirs
        /\ req[r].template_name = req[q].template_name

\* the entries physically beneath root: every ancestor is a real directory
RECURSIVE Beneath(_, _)
Beneath(tr, p) ==
    /\ tr[p] # "absent"
    /\ ZpParent(p) # "" => (tr[ZpParent(p)] = "dir" /\ Beneath(tr, ZpParent(p)))

\* C20: the archive has exactly one entry, named by its path relative to the
\* root, for every regular file and every symbolic link beneath the root and
\* no other entry (none for a directory); a symbolic link, whatever it points
\* to, is a symlink-marked entry whose payload is the link's target path, and
\* a regular file is an unmarked entry holding the file's content.
C20_ArchiveEntries ==
    zp_out # <<>> =>
        LET archive == zp_out[1]
            Wanted == {p \in ZpPaths : Beneath(zp_tree, p)
                                        /\ zp_tree[p] \in ZpLinks \cup {"file"}}
        IN  /\ \A p \in Wanted :
                    Cardinality({i \in DOMAIN archive : archive[i].name = p}) = 1
            /\ \A i \in DOMAIN archive :
                    /\ archive[i].name \in Wanted
                    /\ zp_tree[archive[i].name] \in ZpLinks =>
                            /\ archive[i].symlink
                            /\ archive[i].payload = [target_of |-> archive[i].name]
                    /\ zp_tree[archive[i].name] = "file" =>
                            /\ ~archive[i].symlink
                            /\ archive[i].payload = [content_of |-> archive[i].name]

\* a tree with a regular file, a link to a file and a link to a directory that
\* has something in it, archived
C20_Witness ==
    /\ zp_out # <<>>
    /\ zp_tree["a"] = "link_file"
    /\ zp_tree["d"] = "dir"
    /\ zp_tree["d/f"] = "file"
    /\ zp_tree["d/s"] = "link_dir"
    /\ zp_tree["d/s/g"] = "file"
    /\ Len(zp_out[1]) = 3


\* C21: the registry keeps no cache: whenever no registry file was edited
\* since the last catalog response, that response shows the index and the
\* schema as they are on disk now -- a listing gives the current index keys,
\* a template-config answer gives the current schema of a template the
\* current index names, and a template the current index lacks is a 404.
C21_RegistryReadsDisk ==
    (ct_fresh /\ ct_resp.op # "none" /\ ct_index) =>
        /\ ct_resp.op = "list" => ct_resp.status = 200 /\ ct_resp.names = ct_names
        /\ (ct_resp.op = "config" /\ ct_resp.status = 200) =>
                ct_resp.schema = ct_disk /\ ct_resp.name \in ct_names
        /\ (ct_resp.op = "config" /\ ct_resp.name \notin ct_names) =>
                ct_resp.status = 404

\* an edited schema is served by the first call after the edit, for a
\* template of an edited index
C21_Witness ==
    /\ ct_fresh /\ ct_resp.op = "config" /\ ct_resp.status = 200
    /\ ct_resp.schema \in CtEditedSchemas
    /\ ct_names \in CtEditedIndexes


\* C22: the callback does not bind the supplied state to the session: with
\* a code, the OAuth settings complete and some oauth_state stored in the
\* session, every supplied state that is well-signed under the configured
\* secret gets through the state check (the token exchange is sent), whether
\* or not it equals the stored one.  (A callback leaves oauth_state and the
\* settings as they were, so they are read after the call.)
C22_StateNotBoundToSession ==
    ( /\ last.op = "callback" /\ last.code # ""
      /\ session[last.client].oauth_state # NoState
      /\ loads_ok(SecretKey, last.state)
      /\ oauth_cfg.client_id /\ oauth_cfg.client_secret /\ oauth_cfg.redirect_uri )
        => last.exchange # NotSent

\* a state minted for another session is accepted
C22_Witness ==
    /\ last.op = "callback" /\ last.exchange # NotSent
    /\ last.state # session[last.client].oauth_state
    /\ \E c \in Clients \ {last.client} : session[c].oauth_state = last.state

\* C23: a callback never changes the session's oauth_state (only a login
\* writes it), and after a successful callback the same request passes the
\* checks again: sent once more, it goes on to the token exchange.
C23_StateNotInvalidated ==
    /\ [][last'.op = "callback" =>
            \A c \in Clients : session'[c].oauth_state = session[c].oauth_state]_vars
    /\ []((last.op = "callback" /\ last.status = 307) =>
            callback_precheck(session[last.client], oauth_cfg, last.code,
                              last.state) = "")
    /\ [](replayed => last.exchange # NotSent)

\* the callback sent a second time after it succeeded
C23_Witness ==
    /\ replayed /\ last.exchange # NotSent
    /\ session[last.client].github_token # ""

C29_FailedCallbackKeepsToken ==
    [][(last'.op = "login" \/ (last'.op = "callback" /\ last'.profile = -1)) =>
        \A c \in Clients :
            /\ session'[c].github_token = session[c].github_token
            /\ session'[c].github_user = session[c].github_user]_vars

\* a callback failing at the token exchange in a session that holds a token
\* and a profile
C29_Witness ==
    /\ last.op = "callback" /\ last.status = 502
    /\ session[last.client].github_token # ""
    /\ session[last.client].github_user # ""


\* C24: in create_github_repo the temporary directory, the engine call and
\* every git command come only after the repository-creation request was
\* answered with a status below 400: a request whose creation call failed or
\* got no answer has no temporary directory, no engine call and no git command.
C24_GenerationAfterCreation ==
    \A r \in Requests :
        (req[r].kind = "github"
            /\ (temp_dir[r] # NoDir \/ engineLog[r] # <<>> \/ gitLog[r] # <<>>)) =>
            /\ Len(apiLog[r]) = 1
            /\ apiLog[r][1].status \in 1 .. 399

\* generation and git commands after the repository was created
C24_Witness ==
    \E r \in Requests :
        /\ req[r].kind = "github" /\ apiLog[r] # <<>> /\ apiLog[r][1].status = 201
        /\ temp_dir[r] # NoDir /\ engineLog[r] # <<>> /\ gitLog[r] # <<>>

ProvisioningOrder ==
    <<"init", "config_email", "config_name", "checkout", "add", "commit",
      "remote_add", "push">>

\* C25: the git commands of a provisioning request are init, committer
\* email, committer name, checkout -b, add, commit, remote add, push, in that
\* order; a command runs only after all earlier ones exited zero, and a
\* command that did not exit zero is the last one run and fails the request
\* with 500.
C25_GitStepsInOrder ==
    \A r \in Requests :
        req[r].kind \in ProvisionKinds =>
            /\ Len(gitLog[r]) <= Len(ProvisioningOrder)
            /\ \A i \in DOMAIN gitLog[r] :
                /\ gitLog[r][i].cmd = ProvisioningOrder[i]
                /\ i < Len(gitLog[r]) => gitLog[r][i].outcome = "ok"
                /\ gitLog[r][i].outcome # "ok" =>
                        /\ pc[r] \in {"finally", "done"}
                        /\ resp[r].status = 500

\* the commit fails after five commands that exited zero: no remote, no push
C25_Witness ==
    \E r \in Requests :
        /\ pc[r] = "done" /\ Len(gitLog[r]) = 6
        /\ gitLog[r][6].outcome = "nonzero_stderr"
        /\ resp[r].status = 500

\* C27: a provisioning request sends the repository-creation request only
\* for a template that is in the index and has its directory and schema on
\* disk.
C27_TemplateValidatedBeforeCreation ==
    \A r \in Requests :
        (req[r].kind \in ProvisionKinds /\ apiLog[r] # <<>>) =>
            load_template_config(index_exists, req[r].template_name).ok

\* C28: no response of a provisioning request holds text that carries the
\* bearer token.
C28_TokenNeverInResponse ==
    \A r \in Requests :
        \A i \in DOMAIN resp[r].detail : ~carries_token(resp[r].detail[i])

\* C30: the token of a provisioning request is the Bearer header's whenever
\* such a header is sent -- an empty one gives 401 with nothing sent, whatever
\* the session and the environment hold; without a Bearer header it is the
\* session's github_token, and the GITHUB_TOKEN value only when the session
\* has none; the token resolved is the one sent to the hosting API.
C30_TokenPrecedence ==
    \A r \in Requests :
        req[r].kind \in ProvisionKinds =>
            LET h == req[r].header
            IN  /\ (h.scheme = "bearer" /\ h.cred # "") => token[r] = h.cred
                /\ (h.scheme = "bearer" /\ h.cred = "") =>
                        /\ resp[r] = MissingToken
                        /\ token[r] = "" /\ apiLog[r] = <<>>
                /\ (h.scheme # "bearer" /\ session_token # "") =>
                        token[r] = session_token
                /\ (h.scheme # "bearer" /\ session_token = "") =>
                        token[r] = env_token
                /\ \A i \in DOMAIN apiLog[r] : apiLog[r][i].auth = token[r]

\* an empty Bearer token is refused although the session and the environment
\* both hold a token
C30_Witness ==
    \E r \in Requests :
        /\ req[r].kind \in ProvisionKinds
        /\ req[r].header.scheme = "bearer" /\ req[r].header.cred = ""
        /\ session_token # "" /\ env_token # ""
        /\ resp[r] = MissingToken

=============================================================================
